---- MODULE Spec2Model ----
(***************************************************************************)
(* Model of the e-book translation pipeline of src/translator_backend.py   *)
(* (class BackendTranslator) together with the stop button of              *)
(* src/gui_app.py and, for runs started from the window, its message       *)
(* queue and Run button.  The HTTP front end of src/app.py is a server of  *)
(* its own, modelled by the variables and actions of its own section.      *)
(* One coordinator thread runs run_translation; a pool of worker threads   *)
(* runs _process_single_file, one task per content                         *)
(* document; a separate context may set stop_requested at any time.        *)
(*                                                                         *)
(* Texts are tuples of one-character strings, so that strip, len,          *)
(* re.search('[a-zA-Z]') and startswith("[Error") are computed as the code *)
(* computes them.  The bytes of a member are a record: the form of the     *)
(* byte string ("raw" as found in the input archive, "min" as produced by  *)
(* soup.decode(formatter='minimal')) and the element tree they parse to.   *)
(***************************************************************************)
EXTENDS Integers, Sequences, FiniteSets, TLC

VARIABLES
    settings,               \* the settings dict handed to run_translation
    file_exists,            \* os.path.exists(input_path)
    zin,                    \* the input archive: member name -> bytes
    stop_requested,         \* BackendTranslator.stop_requested
    total_translated_count, \* BackendTranslator.total_translated_count
    argos_model,            \* BackendTranslator.argos_model is set
    lifecycle,              \* calls made to the local-model package so far
    pc,                     \* position of the coordinator in run_translation
    nsub,                   \* number of documents submitted to the executor
    task,                   \* one record per content document (its future)
    yielded,                \* futures as_completed has handed out and written
    completed,              \* the local 'completed' of run_translation
    zout,                   \* the output archive
    temp_epub,              \* the converter's temporary archive exists
    run,                    \* how many times the pipeline has been started
    damage,                 \* what is unreadable in the input archive
    sink,                   \* what the progress callback has received
    app,                    \* the window of gui_app.py, when there is one
    LOADED_MODELS,          \* app.py: language pair -> cached translation
    created,                \* app.py: translation objects obtained so far
    warmed,                 \* app.py: those whose warmup call has returned
    req                     \* app.py: the request each server thread handles

vars == <<settings, file_exists, zin, stop_requested, total_translated_count,
          argos_model, lifecycle, pc, nsub, task, yielded, completed, zout,
          temp_epub, run, damage, sink, app, LOADED_MODELS, created, warmed,
          req>>

httpVars == <<LOADED_MODELS, created, warmed, req>>
envVars == <<settings, file_exists, zin, run, damage, app, httpVars>>
modelVars == <<argos_model, lifecycle>>
coordVars == <<pc, nsub, yielded, completed, zout, temp_epub, sink>>

----------------------------------------------------------------------------
(* Bounds of the model *)

MaxLimit == 1
MaxRuns == 2
MaxRequests == 2

----------------------------------------------------------------------------
(* Texts *)

Letters == {"a", "b", "c", "x", "y", "z", "E", "r", "o", "n", "e", "t", "i",
            "m", "u", "C", "M", "d", "l", "N"}

None == <<"<None>">>
Raise == <<"<raise>">>
Empty == << >>

GoodText == <<"a", "b", "c">>
PadText == <<" ", "a", "b", " ">>
NumText == <<"1", "2", "3">>
TrA == <<"x", "y", "z">>

RECURSIVE LStrip(_)
LStrip(t) == IF t # << >> /\ Head(t) = " " THEN LStrip(Tail(t)) ELSE t

RECURSIVE RStrip(_)
RStrip(t) ==
    IF t # << >> /\ t[Len(t)] = " " THEN RStrip(SubSeq(t, 1, Len(t) - 1)) ELSE t

Strip(t) == RStrip(LStrip(t))

HasAlpha(t) == \E k \in 1..Len(t) : t[k] \in Letters

Take(t, n) == SubSeq(t, 1, IF Len(t) < n THEN Len(t) ELSE n)

StartsWith(t, p) == Len(t) >= Len(p) /\ SubSeq(t, 1, Len(p)) = p

ErrorPrefix == <<"[", "E", "r", "r", "o", "r">>

ErrorText(msg) ==
    ErrorPrefix \o <<":", " ">> \o Take(msg, 20) \o <<".", ".", ".", "]">>

ModelNotLoaded ==
    ErrorPrefix \o <<":", " ", "M", "o", "d", "e", "l", " ", "n", "o", "t", " ",
                     "l", "o", "a", "d", "e", "d", "]">>

ConnectionTimeout ==
    <<"C", "o", "n", "n", "e", "c", "t", "i", "o", "n", " ",
      "t", "i", "m", "e", "o", "u", "t">>

ExcMsg == <<"n", "e", "t">>

KeyMsg == <<"k", "e", "y">>

Truthy(t) == t # None /\ t # Empty

----------------------------------------------------------------------------
(* The archive *)

NameList == <<"mimetype", "ch1.xhtml", "nav.xhtml", "ch2.html", "ch3.html",
              "ch4.html", "ch5.html", "Error.xhtml">>

Names == {NameList[k] : k \in 1..Len(NameList)}

HtmlNames == Names \ {"mimetype"}

\* the members of a small book
BookNames == {"mimetype", "ch1.xhtml", "nav.xhtml", "ch2.html"}

TocNavNames == {"nav.xhtml"}

\* the names in which "Error" occurs
ErrorNames == {"Error.xhtml"}

\* n.endswith(('.html', '.xhtml'))
IsHtml(n) == n \in HtmlNames

\* 'toc' in filename.lower() or 'nav' in filename.lower()
IsTocNav(n) == n \in TocNavNames

\* every content document name an archive of the model may hold
Docs == {n \in Names : IsHtml(n)}

\* n is a content document of the input archive
InFileList(n) == n \in DOMAIN zin /\ IsHtml(n)

\* file_list = [n for n in zin.namelist() if n.endswith(('.html', '.xhtml'))]
file_list == SelectSeq(NameList, InFileList)

total_files == Len(file_list)

\* the content documents of the input archive
FileDocs == {file_list[k] : k \in 1..total_files}

\* An element found by soup.find_all(primary_tags): whether it has an <a>
\* ancestor, whether its own class attribute holds "translation-text", its
\* own text, and the texts of the translation spans appended to it; parent
\* is the position in the list of the allow-listed element that directly
\* contains it, 0 when there is none.
El(link, cls, text) ==
    [link |-> link, cls |-> cls, text |-> text, added |-> << >>, parent |-> 0]

\* an allow-listed element inside the allow-listed element at position k
Nested(k, text) == [El(FALSE, FALSE, text) EXCEPT !.parent = k]

BinBytes == [form |-> "raw", els |-> << >>]

RawBytes(els) == [form |-> "raw", els |-> els]

ArchiveA ==
    [n \in BookNames |->
        CASE n = "ch1.xhtml" -> RawBytes(<<El(FALSE, FALSE, GoodText),
                                           El(TRUE, FALSE, GoodText)>>)
          [] n = "ch2.html"  -> RawBytes(<<El(FALSE, FALSE, NumText),
                                           El(FALSE, FALSE, GoodText)>>)
          [] n = "nav.xhtml" -> RawBytes(<<El(FALSE, FALSE, GoodText)>>)
          [] OTHER           -> BinBytes]

ArchiveB ==
    [n \in BookNames |->
        CASE n = "ch1.xhtml" -> RawBytes(<<El(FALSE, FALSE, PadText),
                                           El(FALSE, TRUE, GoodText)>>)
          [] n = "ch2.html"  -> RawBytes(<<El(FALSE, FALSE, GoodText)>>)
          [] n = "nav.xhtml" -> RawBytes(<<El(FALSE, FALSE, GoodText)>>)
          [] OTHER           -> BinBytes]

\* an archive without content documents
ArchiveC == [n \in {"mimetype"} |-> BinBytes]

Archives == {ArchiveA, ArchiveB, ArchiveC}

\* a chapter whose blockquote contains a paragraph
ArchiveN ==
    [n \in {"mimetype", "ch1.xhtml"} |->
        IF n = "mimetype" THEN BinBytes
        ELSE RawBytes(<<El(FALSE, FALSE, GoodText), Nested(1, GoodText)>>)]

\* a book of five chapters without any allow-listed element, more chapters
\* than the pool of the default policy has threads
ArchiveP ==
    [n \in Names \ {"nav.xhtml", "Error.xhtml"} |->
        IF n = "mimetype" THEN BinBytes ELSE RawBytes(<< >>)]

\* a book with a chapter on errors, named after its title
ArchiveE ==
    [n \in {"mimetype", "ch1.xhtml", "Error.xhtml"} |->
        IF n = "mimetype" THEN BinBytes
        ELSE RawBytes(<<El(FALSE, FALSE, GoodText)>>)]

\* raw_data.decode(...) followed by BeautifulSoup(content, 'html.parser') and
\* soup.find_all(primary_tags)
Parse(bytes) == bytes.els

\* soup.decode(formatter='minimal').encode('utf-8')
Serialize(els) == [form |-> "min", els |-> els]

RECURSIVE Concat(_)
Concat(ts) == IF ts = << >> THEN << >> ELSE Head(ts) \o Concat(Tail(ts))

RECURSIVE get_text(_, _)
RECURSIVE ChildrenText(_, _, _)

\* the texts of the elements from position c on that element k contains
ChildrenText(els, k, c) ==
    IF c > Len(els) THEN << >>
    ELSE (IF els[c].parent = k THEN get_text(els, c) ELSE << >>)
             \o ChildrenText(els, k, c + 1)

\* el.get_text() of the element at position k: its own text, the text of
\* the elements it contains, and that of the spans appended to it
get_text(els, k) ==
    els[k].text \o ChildrenText(els, k, k + 1) \o Concat(els[k].added)

----------------------------------------------------------------------------
(* translate_text_api *)

Responses == {TrA, Empty}

Outcomes == {Raise} \cup Responses

\* Mutant of RetryLimit: one attempt too many.
RetryLimitOffByOne == 3 + 1

RetryLimit == 3

Oracles == [1..RetryLimit -> Outcomes]

\* for _ in range(3): try: return ...translate(text) except: time.sleep(1)
RECURSIVE GoogleFreeAttempts(_, _)
GoogleFreeAttempts(oracle, k) ==
    IF k > RetryLimit
    THEN [result |-> ErrorText(ConnectionTimeout),
          log |-> SubSeq(oracle, 1, RetryLimit)]
    ELSE IF oracle[k] # Raise
         THEN [result |-> oracle[k], log |-> SubSeq(oracle, 1, k)]
         ELSE GoogleFreeAttempts(oracle, k + 1)

\* One backend call that may raise; the outer except turns it into a text.
SingleCall(oracle) ==
    [result |-> IF oracle[1] = Raise THEN ErrorText(ExcMsg) ELSE oracle[1],
     log |-> <<oracle[1]>>]

GeminiCall(oracle) ==
    [result |-> IF oracle[1] = Raise THEN ErrorText(ExcMsg)
                ELSE IF Truthy(oracle[1]) THEN Strip(oracle[1]) ELSE None,
     log |-> <<oracle[1]>>]

\* deepl.Translator(cfg["deepl_key"]) or the gemini request raises for an
\* absent or empty key; the outer except turns that into a text as well.
NoCredential == [result |-> ErrorText(KeyMsg), log |-> << >>]

translate_text_api(text, cfg, model, oracle) ==
    IF text = Empty THEN [result |-> None, log |-> << >>]
    ELSE CASE cfg.source = "local" ->
                IF model THEN SingleCall(oracle)
                ELSE [result |-> ModelNotLoaded, log |-> << >>]
           [] cfg.source = "deepl" ->
                IF cfg.deepl_key = "" THEN NoCredential ELSE SingleCall(oracle)
           [] cfg.source = "gemini" ->
                IF cfg.gemini_key = "" THEN NoCredential ELSE GeminiCall(oracle)
           [] cfg.source = "google_free" -> GoogleFreeAttempts(oracle, 1)
           [] OTHER -> [result |-> text, log |-> << >>]

----------------------------------------------------------------------------
(* _process_single_file *)

\* Mutant of Skipped: the <a> ancestor is not looked for.
SkippedByClassOnly(el) == el.cls

\* if el.find_parent('a') or "translation-text" in el.get('class', []): continue
Skipped(el) == el.link \/ el.cls

\* Mutant of TextOk: the text is not searched for a letter.
TextLongEnough(t) == Len(t) > 2

\* len(original_text) > 2 and re.search('[a-zA-Z]', original_text)
TextOk(t) == Len(t) > 2 /\ HasAlpha(t)

\* Mutant of Accepted: the error texts of the backends are not recognised.
AcceptedAnyText(trans) == Truthy(trans)

\* if trans_text and not trans_text.startswith("[Error"):
Accepted(trans) == Truthy(trans) /\ ~StartsWith(trans, ErrorPrefix)

\* el.append(br); el.append(span) with span.string = trans_text
Inject(el, trans) == [el EXCEPT !.added = Append(@, trans)]

\* Mutant of Result: the tree is serialized whether or not it was modified.
ResultAlwaysSerialized(t) == Serialize(t.els)

\* return filename, <bytes>, modified
Result(t) == IF t.modified THEN Serialize(t.els) ELSE t.raw

\* the test at the top of the loop body, under counter_lock
BudgetExhausted(count, limit) == count >= limit

\* Mutant of max_workers: the pool size of the keyed cloud backend is used
\* for every backend.
max_workers_always_16(source) == 16

\* max_workers of the ThreadPoolExecutor
max_workers(source) ==
    IF source = "local" THEN 1 ELSE IF source = "deepl" THEN 16 ELSE 4

Running == {d \in Docs : task[d].st = "running"}

Position(d) == CHOOSE k \in 1..total_files : file_list[k] = d

\* Mutant of NextQueued: queued work items are no longer started once the
\* stop flag is set, although the executor's shutdown still waits for them.
NextQueuedUntilStop(d) ==
    /\ ~stop_requested
    /\ task[d].st = "queued"
    /\ \A e \in FileDocs : task[e].st = "queued" => Position(d) <= Position(e)

\* The executor hands queued work items to its threads in submission order.
NextQueued(d) ==
    /\ task[d].st = "queued"
    /\ \A e \in FileDocs : task[e].st = "queued" => Position(d) <= Position(e)

IdleTask == [st |-> "none", pc |-> "begin", raw |-> BinBytes, els |-> << >>,
             i |-> 1, modified |-> FALSE, trans |-> None, log |-> << >>,
             ninj |-> 0, ncalls |-> 0, nfail |-> 0, result |-> BinBytes,
             subs |-> 0, late |-> 0, arg |-> None]

Finish(t) == [t EXCEPT !.st = "done", !.pc = "end", !.result = Result(t)]

\* the last attempt of a backend call ended in an exception
Raised(log) == log # << >> /\ log[Len(log)] = Raise

\* Mutant of Begin: the task does not test the stop flag before it starts.
BeginIgnoringStop(d) ==
    /\ NextQueued(d)
    /\ Cardinality(Running) < max_workers(settings.source)
    /\ task' = [task EXCEPT ![d] =
            IF IsTocNav(d)
            THEN Finish(@)
            ELSE [@ EXCEPT !.st = "running", !.pc = "loop",
                           !.els = Parse(task[d].raw), !.i = 1]]
    /\ UNCHANGED <<envVars, modelVars, coordVars, stop_requested,
                   total_translated_count>>

\* lines 134-148: the task starts on a free worker thread
Begin(d) ==
    /\ NextQueued(d)
    /\ Cardinality(Running) < max_workers(settings.source)
    /\ task' = [task EXCEPT ![d] =
            IF stop_requested \/ IsTocNav(d)
            THEN Finish(@)
            ELSE [@ EXCEPT !.st = "running", !.pc = "loop",
                           !.els = Parse(task[d].raw), !.i = 1]]
    /\ UNCHANGED <<envVars, modelVars, coordVars, stop_requested,
                   total_translated_count>>

\* lines 150-151: next element, or the end of the loop
Loop(d) ==
    /\ task[d].st = "running" /\ task[d].pc = "loop"
    /\ task' = [task EXCEPT ![d] =
            IF @.i > Len(@.els) \/ stop_requested
            THEN Finish(@)
            ELSE [@ EXCEPT !.pc = IF settings.test_mode THEN "budget" ELSE "call"]]
    /\ UNCHANGED <<envVars, modelVars, coordVars, stop_requested,
                   total_translated_count>>

\* lines 153-155
Budget(d) ==
    /\ task[d].st = "running" /\ task[d].pc = "budget"
    /\ task' = [task EXCEPT ![d] =
            IF BudgetExhausted(total_translated_count, settings.test_limit)
            THEN Finish(@)
            ELSE [@ EXCEPT !.pc = "call"]]
    /\ UNCHANGED <<envVars, modelVars, coordVars, stop_requested,
                   total_translated_count>>

\* lines 157-162
Call(d) ==
    /\ task[d].st = "running" /\ task[d].pc = "call"
    /\ LET t == task[d]
           el == t.els[t.i]
           original_text == Strip(get_text(t.els, t.i))
       IN IF Skipped(el) \/ ~TextOk(original_text)
          THEN task' = [task EXCEPT ![d].i = @ + 1, ![d].pc = "loop"]
          ELSE \E oracle \in Oracles :
                 LET r == translate_text_api(original_text, settings,
                                             argos_model, oracle)
                 IN task' = [task EXCEPT ![d].trans = r.result,
                                         ![d].log = r.log,
                                         ![d].ncalls = @ + 1,
                                         ![d].arg = original_text,
                                         ![d].late =
                                             IF stop_requested THEN @ + 1 ELSE @,
                                         ![d].nfail =
                                             IF Raised(r.log) THEN @ + 1 ELSE @,
                                         ![d].pc = "inject"]
    /\ UNCHANGED <<envVars, modelVars, coordVars, stop_requested,
                   total_translated_count>>

\* Mutant of Counted: the counter is advanced before the result is tested.
CountedEveryCall(count, ok, test_mode) ==
    IF test_mode THEN count + 1 ELSE count

\* if test_mode: with self.counter_lock: self.total_translated_count += 1,
\* inside the branch of an accepted result
Counted(count, ok, test_mode) ==
    IF ok /\ test_mode THEN count + 1 ELSE count

\* lines 164-175
InjectStep(d) ==
    /\ task[d].st = "running" /\ task[d].pc = "inject"
    /\ LET t == task[d]
           ok == Accepted(t.trans)
       IN /\ task' = [task EXCEPT ![d] =
                 [@ EXCEPT !.els = IF ok THEN [@ EXCEPT ![t.i] = Inject(@, t.trans)]
                                   ELSE @,
                           !.modified = @ \/ ok,
                           !.ninj = IF ok THEN @ + 1 ELSE @,
                           !.i = @ + 1,
                           !.trans = None,
                           !.arg = None,
                           !.log = << >>,
                           !.pc = "loop"]]
          /\ total_translated_count' =
                 Counted(total_translated_count, ok, settings.test_mode)
    /\ UNCHANGED <<envVars, modelVars, coordVars, stop_requested>>

----------------------------------------------------------------------------
(* self.log and the progress callback *)

ErrorMsgs == {"Error: File not found.", "Error initializing local model",
              "Error: Calibre ebook-convert not found.",
              "Error: Invalid EPUB file.", "Critical Error"}

\* the test of App.check_queue: "Done!" in msg or "Error" in msg or
\* "Stopped" in msg, applied to the message texts of the backend
MsgKind(msg) ==
    IF msg \in ErrorMsgs THEN "error"
    ELSE IF msg = "Stopped by user." THEN "stopped"
    ELSE IF msg = "Done! Saved" THEN "done"
    ELSE IF msg = "Processed" THEN "progress"
    ELSE "info"

IsTerminal(msg) == MsgKind(msg) \in {"done", "stopped", "error"}

\* Mutant of Percent: integer division of completed by total_files.
PercentFloorDiv(done, total) == <<(done \div total) * 100, 1>>

\* (completed/total_files)*100, kept as the fraction numerator/denominator
Percent(done, total) == <<done * 100, total>>

NoMessages == [last |-> "", pct |-> <<0, 1>>, nterm |-> 0, nprog |-> 0,
               prog |-> <<0, 1>>, queue |-> << >>]

\* self.log(percent, message) for a message that names the file fname:
\* with the callback of the window (App.queue_update) the message is put on
\* the queue of the window as well
LogNamed(sk, percent, msg, fname) ==
    [last |-> msg,
     pct |-> percent,
     nterm |-> IF IsTerminal(msg) THEN sk.nterm + 1 ELSE sk.nterm,
     nprog |-> IF MsgKind(msg) = "progress" THEN sk.nprog + 1 ELSE sk.nprog,
     prog |-> IF MsgKind(msg) = "progress" THEN percent ELSE sk.prog,
     queue |-> IF app.attached
               THEN Append(sk.queue, [text |-> msg, fname |-> fname])
               ELSE sk.queue]

\* self.log(percent, message) for a message that names no file
Log(sk, percent, msg) == LogNamed(sk, percent, msg, "")

\* the except clause of run_translation around setup_argos_model
SetupFailed(sk) == Log(sk, <<0, 1>>, "Error initializing local model")

----------------------------------------------------------------------------
(* setup_argos_model *)

\* 1. get_installed_packages(); an exception counts as "not installed"
SetupCheck ==
    /\ pc = "setup_check"
    /\ \E installed \in BOOLEAN :
         /\ pc' = IF installed THEN "setup_load" ELSE "setup_index"
         /\ lifecycle' = Append(lifecycle, IF installed THEN "check_installed"
                                                        ELSE "check_missing")
    /\ sink' = Log(sink, <<0, 1>>, "Initializing Local Model")
    /\ UNCHANGED <<envVars, argos_model, nsub, yielded, completed, zout,
                   temp_epub, task, stop_requested, total_translated_count>>

\* 2. update_package_index(), which may raise
SetupIndex ==
    /\ pc = "setup_index"
    /\ \E ok \in BOOLEAN :
         /\ pc' = IF ok THEN "setup_install" ELSE "error"
         /\ sink' = LET sk == Log(sink, <<0, 1>>, "Updating package index...")
                    IN IF ok THEN Log(sk, <<0, 1>>, "Downloading model")
                       ELSE SetupFailed(sk)
    /\ lifecycle' = Append(lifecycle, "update_index")
    /\ UNCHANGED <<envVars, argos_model, nsub, yielded, completed, zout,
                   temp_epub, task, stop_requested, total_translated_count>>

\* get_available_packages(), download(), install_from_path()
SetupInstall ==
    /\ pc = "setup_install"
    /\ \E found \in BOOLEAN :
         /\ pc' = IF found THEN "setup_load" ELSE "error"
         /\ lifecycle' = IF found THEN Append(lifecycle, "install") ELSE lifecycle
         /\ sink' = IF found
                    THEN Log(sink, <<0, 1>>, "Model installed successfully.")
                    ELSE SetupFailed(sink)
    /\ UNCHANGED <<envVars, argos_model, nsub, yielded, completed, zout,
                   temp_epub, task, stop_requested, total_translated_count>>

\* 3. get_installed_languages(), from_lang.get_translation(to_lang)
SetupLoad ==
    /\ pc = "setup_load"
    /\ \E found \in BOOLEAN :
         /\ pc' = IF found THEN "setup_warmup" ELSE "error"
         /\ argos_model' = found
         /\ sink' = LET sk == Log(sink, <<0, 1>>, "Loading model into memory...")
                    IN IF found THEN sk ELSE SetupFailed(sk)
    /\ lifecycle' = Append(lifecycle, "load")
    /\ UNCHANGED <<envVars, nsub, yielded, completed, zout,
                   temp_epub, task, stop_requested, total_translated_count>>

\* self.argos_model.translate("warmup"), which may raise
SetupWarmup ==
    /\ pc = "setup_warmup"
    /\ \E ok \in BOOLEAN :
         /\ pc' = IF ok THEN "prepare" ELSE "error"
         /\ sink' = IF ok THEN Log(sink, <<0, 1>>, "Model loaded and ready.")
                    ELSE SetupFailed(sink)
    /\ lifecycle' = Append(lifecycle, "warmup")
    /\ UNCHANGED <<envVars, argos_model, nsub, yielded, completed, zout,
                   temp_epub, task, stop_requested, total_translated_count>>

----------------------------------------------------------------------------
(* run_translation *)

EmptyArchive == [state |-> "open", members |-> [n \in Names |-> << >>]]

\* the output path as it was before the run
NoArchive == [state |-> "absent", members |-> [n \in Names |-> << >>]]

\* zout.writestr(name, data)
WriteStr(z, n, data) == [z EXCEPT !.members[n] = Append(@, data)]

\* the message chosen at lines 249-252
Terminal(stop) == IF stop THEN "stopped" ELSE "done"

\* Mutant of Start: the local model is not set up before the run.
StartWithoutSetup ==
    /\ pc = "start"
    /\ pc' = IF ~file_exists THEN "error" ELSE "prepare"
    /\ sink' = IF ~file_exists
               THEN Log(sink, <<0, 1>>, "Error: File not found.") ELSE sink
    /\ UNCHANGED <<envVars, modelVars, nsub, yielded, completed, zout,
                   temp_epub, task, stop_requested, total_translated_count>>

\* lines 182-193
Start ==
    /\ pc = "start"
    /\ pc' = IF ~file_exists THEN "error"
             ELSE IF settings.source = "local" THEN "setup_check"
             ELSE "prepare"
    /\ sink' = IF ~file_exists
               THEN Log(sink, <<0, 1>>, "Error: File not found.") ELSE sink
    /\ UNCHANGED <<envVars, modelVars, nsub, yielded, completed, zout,
                   temp_epub, task, stop_requested, total_translated_count>>

\* lines 195-208
Prepare ==
    /\ pc = "prepare"
    /\ total_translated_count' = 0
    /\ IF settings.ext = ".mobi"
       THEN \E converted \in BOOLEAN :
              /\ temp_epub' = converted
              /\ pc' = IF converted THEN "open" ELSE "error"
              /\ sink' = LET sk == Log(sink, <<0, 1>>, "Converting to EPUB...")
                         IN IF converted THEN sk
                            ELSE Log(sk, <<0, 1>>,
                                     "Error: Calibre ebook-convert not found.")
       ELSE /\ temp_epub' = temp_epub
            /\ pc' = "open"
            /\ sink' = sink
    /\ UNCHANGED <<envVars, modelVars, nsub, yielded, completed, zout,
                   task, stop_requested>>

\* lines 222-226; an unreadable archive raises BadZipFile at line 222
Open ==
    /\ pc = "open"
    /\ IF damage = "archive"
       THEN /\ pc' = "error"
            /\ sink' = Log(sink, <<0, 1>>, "Error: Invalid EPUB file.")
            /\ zout' = zout
       ELSE /\ pc' = "copy"
            /\ sink' = sink
            /\ zout' = EmptyArchive
    /\ UNCHANGED <<envVars, modelVars, nsub, yielded, completed,
                   temp_epub, task, stop_requested, total_translated_count>>

\* zin.read(name) raises for a member that cannot be read
Readable(n) == n # damage

\* the loop of lines 229-231 from member k on, up to a member it cannot read
RECURSIVE CopyAll(_, _)
CopyAll(z, k) ==
    IF k > Len(NameList) THEN z
    ELSE IF NameList[k] \notin DOMAIN zin \/ IsHtml(NameList[k])
         THEN CopyAll(z, k + 1)
         ELSE IF Readable(NameList[k])
              THEN CopyAll(WriteStr(z, NameList[k], zin[NameList[k]]), k + 1)
              ELSE z

CopyFails == \E n \in DOMAIN zin : ~IsHtml(n) /\ ~Readable(n)

\* lines 229-231
CopyNonHtml ==
    /\ pc = "copy"
    /\ IF CopyFails
       THEN /\ zout' = [CopyAll(zout, 1) EXCEPT !.state = "closed"]
            /\ pc' = "error"
            /\ sink' = Log(sink, <<0, 1>>, "Error: Invalid EPUB file.")
       ELSE /\ zout' = CopyAll(zout, 1)
            /\ pc' = IF total_files = 0 THEN "shutdown" ELSE "submit"
            /\ sink' = sink
    /\ UNCHANGED <<envVars, modelVars, nsub, yielded, completed,
                   temp_epub, task, stop_requested, total_translated_count>>

\* Mutant of NextToSubmit: the loop variable is not advanced.
NextToSubmitFirst == file_list[1]

\* for fname in file_list
NextToSubmit == file_list[nsub + 1]

\* lines 236-239, one iteration
Submit ==
    /\ pc = "submit"
    /\ LET fname == NextToSubmit
       IN IF Readable(fname)
          THEN /\ task' = [task EXCEPT ![fname] =
                      [IdleTask EXCEPT !.st = "queued", !.raw = zin[fname],
                                       !.subs = task[fname].subs + 1]]
               /\ nsub' = nsub + 1
               /\ pc' = IF nsub' = total_files THEN "collect" ELSE "submit"
          ELSE /\ pc' = "abort"
               /\ UNCHANGED <<task, nsub>>
    /\ UNCHANGED <<envVars, modelVars, yielded, completed, zout,
                   temp_epub, stop_requested, total_translated_count, sink>>

\* lines 242-247, one iteration: as_completed yields a finished future
Collect(d) ==
    /\ pc = "collect"
    /\ d \notin yielded
    /\ task[d].st = "done"
    /\ IF stop_requested
       THEN /\ pc' = "shutdown"
            /\ UNCHANGED <<yielded, completed, zout, sink>>
       ELSE /\ zout' = WriteStr(zout, d, task[d].result)
            /\ yielded' = yielded \cup {d}
            /\ completed' = completed + 1
            /\ sink' = LogNamed(sink, Percent(completed', total_files),
                                "Processed", d)
            /\ pc' = IF yielded' = FileDocs THEN "shutdown" ELSE "collect"
    /\ UNCHANGED <<envVars, modelVars, nsub, temp_epub, task, stop_requested,
                   total_translated_count>>

\* every submitted task has returned
PoolIdle == \A d \in Docs : task[d].st \in {"none", "done"}

\* leaving the three with blocks: the executor waits for every task, then
\* the archives are closed
Shutdown ==
    /\ pc = "shutdown"
    /\ PoolIdle
    /\ zout' = [zout EXCEPT !.state = "closed"]
    /\ pc' = "final"
    /\ UNCHANGED <<envVars, modelVars, nsub, yielded, completed, sink,
                   temp_epub, task, stop_requested, total_translated_count>>

\* the exception of zin.read(fname) leaves the with blocks: the executor
\* waits for the tasks already submitted, the archives are closed, and the
\* except clause reports the error
Abort ==
    /\ pc = "abort"
    /\ PoolIdle
    /\ zout' = [zout EXCEPT !.state = "closed"]
    /\ pc' = "error"
    /\ sink' = Log(sink, <<0, 1>>, "Error: Invalid EPUB file.")
    /\ UNCHANGED <<envVars, modelVars, nsub, yielded, completed,
                   temp_epub, task, stop_requested, total_translated_count>>

\* lines 249-255; os.remove of the converted file may raise, and the except
\* clause of line 259 then reports it
Final ==
    /\ pc = "final"
    /\ pc' = Terminal(stop_requested)
    /\ \E removed \in BOOLEAN :
         /\ temp_epub \/ removed
         /\ temp_epub' = (temp_epub /\ ~removed)
         /\ sink' = LET sk == IF stop_requested
                              THEN Log(sink, <<0, 1>>, "Stopped by user.")
                              ELSE Log(sink, <<100, 1>>, "Done! Saved")
                    IN IF removed THEN sk
                       ELSE Log(sk, <<0, 1>>, "Critical Error")
    /\ UNCHANGED <<envVars, modelVars, nsub, yielded, completed, zout,
                   task, stop_requested, total_translated_count>>

Ended == pc \in {"done", "stopped", "error"}

\* App.stop_translation, from the GUI thread
Stop ==
    /\ ~Ended
    /\ ~stop_requested
    /\ stop_requested' = TRUE
    /\ UNCHANGED <<envVars, modelVars, coordVars, task, total_translated_count>>

----------------------------------------------------------------------------

(* app.py: the HTTP front end, a threaded Flask server *)

\* the variables of the pipeline and of the window, which the server does
\* not touch
pipelineVars == <<settings, file_exists, zin, run, damage, app, modelVars,
                  coordVars, task, stop_requested, total_translated_count>>

\* the (source, target) pairs requests ask for, and the one whose
\* languages get_installed_languages() returns
Pairs == {"en_tr", "en_xx"}
Installed == {"en_tr"}

\* app.run(..., threaded=True): the threads that handle requests
Threads == {"t1", "t2"}

NoModel == <<"none", 0>>

\* the n-th translation object obtained for pair p
Model(p, n) == <<p, n>>

ModelsOf(p) == {m \in created : m[1] = p}

IdleRequest == [pc |-> "idle", kind |-> "", pair |-> "", translation |-> NoModel,
                status |-> 0, served |-> 0]

\* the process after start: empty cache, no request in progress
ServerStart ==
    /\ LOADED_MODELS = [p \in Pairs |-> NoModel]
    /\ created = {}
    /\ warmed = {}
    /\ req = [t \in Threads |-> IdleRequest]

\* the response of a request that ends here
Respond(r, code) == [r EXCEPT !.pc = "done", !.status = code]

\* load_model_logic returns a translation to its caller: /loadmodel
\* answers 200 (line 114), /translate goes on to translate (line 150)
Return(r) ==
    IF r.kind = "loadmodel" THEN Respond(r, 200) ELSE [r EXCEPT !.pc = "t_call"]

\* lines 103-108 and 127-135: a request arrives; one without the required
\* fields is answered 400
Receive(t) ==
    /\ req[t].pc \in {"idle", "done"}
    /\ req[t].served < MaxRequests
    /\ \E kind \in {"translate", "loadmodel"}, p \in Pairs, valid \in BOOLEAN :
         LET r == [IdleRequest EXCEPT !.kind = kind, !.pair = p,
                                      !.served = req[t].served + 1]
         IN req' = [req EXCEPT ![t] =
                IF ~valid THEN Respond(r, 400)
                ELSE [r EXCEPT !.pc = IF kind = "translate" THEN "t_cache"
                                      ELSE "l_check"]]
    /\ UNCHANGED <<pipelineVars, LOADED_MODELS, created, warmed>>

\* lines 139-144: translation = LOADED_MODELS.get((source, target))
CacheGet(t) ==
    /\ req[t].pc = "t_cache"
    /\ LET m == LOADED_MODELS[req[t].pair]
       IN req' = [req EXCEPT ![t] =
              IF m # NoModel THEN [@ EXCEPT !.translation = m, !.pc = "t_call"]
              ELSE [@ EXCEPT !.pc = "l_check"]]
    /\ UNCHANGED <<pipelineVars, LOADED_MODELS, created, warmed>>

\* lines 44-45: if (source_lang, target_lang) in LOADED_MODELS
LoadCheck(t) ==
    /\ req[t].pc = "l_check"
    /\ LET m == LOADED_MODELS[req[t].pair]
       IN req' = [req EXCEPT ![t] =
              IF m # NoModel THEN Return([@ EXCEPT !.translation = m])
              ELSE [@ EXCEPT !.pc = "l_find"]]
    /\ UNCHANGED <<pipelineVars, LOADED_MODELS, created, warmed>>

\* Mutant of LoadFind: the translation object is cached as soon as it is
\* obtained, before its warmup.
LoadFindCaching(t) ==
    /\ req[t].pc = "l_find"
    /\ req[t].pair \in Installed
    /\ LET m == Model(req[t].pair, Cardinality(ModelsOf(req[t].pair)) + 1)
       IN /\ created' = created \cup {m}
          /\ LOADED_MODELS' = [LOADED_MODELS EXCEPT ![req[t].pair] = m]
          /\ req' = [req EXCEPT ![t].translation = m, ![t].pc = "l_warm"]
    /\ UNCHANGED <<pipelineVars, warmed>>

\* lines 50-58: the languages are looked up and get_translation is called;
\* it returns a translation or None, or raises
LoadFind(t) ==
    /\ req[t].pc = "l_find"
    /\ IF req[t].pair \notin Installed
       THEN /\ req' = [req EXCEPT ![t] = Respond(@, 404)]
            /\ created' = created
       ELSE \E outcome \in {"translation", "none", "raise"} :
              LET m == Model(req[t].pair, Cardinality(ModelsOf(req[t].pair)) + 1)
              IN CASE outcome = "translation" ->
                        /\ created' = created \cup {m}
                        /\ req' = [req EXCEPT ![t].translation = m,
                                              ![t].pc = "l_warm"]
                   [] outcome = "none" ->
                        /\ req' = [req EXCEPT ![t] = Respond(@, 404)]
                        /\ created' = created
                   [] outcome = "raise" ->
                        /\ req' = [req EXCEPT ![t] = Respond(@, 500)]
                        /\ created' = created
    /\ UNCHANGED <<pipelineVars, LOADED_MODELS, warmed>>

\* line 62: translation.translate("warmup"), which may raise
LoadWarm(t) ==
    /\ req[t].pc = "l_warm"
    /\ \E ok \in BOOLEAN :
         IF ok
         THEN /\ warmed' = warmed \cup {req[t].translation}
              /\ req' = [req EXCEPT ![t].pc = "l_store"]
         ELSE /\ warmed' = warmed
              /\ req' = [req EXCEPT ![t] = Respond(@, 500)]
    /\ UNCHANGED <<pipelineVars, LOADED_MODELS, created>>

\* lines 63-66: LOADED_MODELS[(source_lang, target_lang)] = translation
LoadStore(t) ==
    /\ req[t].pc = "l_store"
    /\ LOADED_MODELS' = [LOADED_MODELS EXCEPT ![req[t].pair] = req[t].translation]
    /\ req' = [req EXCEPT ![t] = Return(@)]
    /\ UNCHANGED <<pipelineVars, created, warmed>>

\* lines 150-160: translation.translate(q), which may raise
Translate(t) ==
    /\ req[t].pc = "t_call"
    /\ \E ok \in BOOLEAN :
         req' = [req EXCEPT ![t] = Respond(@, IF ok THEN 200 ELSE 500)]
    /\ UNCHANGED <<pipelineVars, LOADED_MODELS, created, warmed>>

----------------------------------------------------------------------------

Sources == {"local", "deepl", "gemini", "google_free", "other"}

TestConfigs ==
    {<<FALSE, MaxLimit>>} \cup {<<TRUE, l>> : l \in 0..MaxLimit}

\* values of the "Start Ch" field of the GUI
StartIndexes == {0, 1}

\* the input files: an .epub with the "Start Ch" field left at 0, and a
\* .mobi with the field set to the other value
FileChoices ==
    {fc \in StartIndexes \X {".epub", ".mobi"} : fc[1] = 0 <=> fc[2] = ".epub"}

\* the dictionary built by App.run_translation, every key filled in
KeyedSettings ==
    {[source |-> s, test_mode |-> tc[1], test_limit |-> tc[2],
      start_index |-> fc[1], ext |-> fc[2],
      deepl_key |-> "k", gemini_key |-> "k"] :
        s \in Sources, tc \in TestConfigs, fc \in FileChoices}

\* the same dictionary with the key field of the selected backend left empty
UnkeyedSettings ==
    {[source |-> s, test_mode |-> FALSE, test_limit |-> MaxLimit,
      start_index |-> 0, ext |-> ".epub",
      deepl_key |-> IF s = "deepl" THEN "" ELSE "k",
      gemini_key |-> IF s = "gemini" THEN "" ELSE "k"] :
        s \in {"deepl", "gemini"}}

Settings == KeyedSettings \cup UnkeyedSettings

\* what cannot be read of the input: nothing, the archive as a whole, or
\* one member of it
Damages(z) == {"none", "archive"} \cup (DOMAIN z \cap {"mimetype", "nav.xhtml"})

\* a run of the default backend on the book of five chapters
PoolSettings ==
    {c \in KeyedSettings :
        /\ c.source = "google_free" /\ ~c.test_mode
        /\ c.start_index = 0 /\ c.ext = ".epub"}

\* a run of a cloud backend on the chapter with nested elements
NestSettings ==
    {c \in KeyedSettings :
        /\ c.source = "deepl" /\ ~c.test_mode
        /\ c.start_index = 0 /\ c.ext = ".epub"}

Inputs ==
    (Settings \X Archives) \cup (PoolSettings \X {ArchiveP})
        \cup (NestSettings \X {ArchiveN})

\* no window: BackendTranslator() with a callback that only receives
NoApp == [attached |-> FALSE, btn_run |-> "normal", polling |-> FALSE]

\* the window after App.run_translation: Run button disabled, backend
\* thread started, check_queue scheduled
AppRunning == [attached |-> TRUE, btn_run |-> "disabled", polling |-> TRUE]

\* the state after BackendTranslator.__init__, before run_translation, for
\* one of the given inputs and front ends
InitRun(inputs, front) ==
    /\ \E inp \in inputs : settings = inp[1] /\ zin = inp[2]
    /\ file_exists \in BOOLEAN
    /\ damage \in Damages(zin)
    /\ sink = NoMessages
    /\ app = front
    /\ stop_requested = FALSE
    /\ total_translated_count = 0
    /\ argos_model = FALSE
    /\ lifecycle = << >>
    /\ pc = "start"
    /\ nsub = 0
    /\ task = [d \in Docs |-> IdleTask]
    /\ yielded = {}
    /\ completed = 0
    /\ zout = NoArchive
    /\ temp_epub = FALSE
    /\ run = 1

Init == InitRun(Inputs, NoApp) /\ ServerStart

Next ==
    \/ Start
    \/ SetupCheck
    \/ SetupIndex
    \/ SetupInstall
    \/ SetupLoad
    \/ SetupWarmup
    \/ Prepare
    \/ Open
    \/ CopyNonHtml
    \/ Submit
    \/ \E d \in Docs : Collect(d)
    \/ Shutdown
    \/ Abort
    \/ Final
    \/ Stop
    \/ \E d \in Docs : Begin(d)
    \/ \E d \in Docs : Loop(d)
    \/ \E d \in Docs : Budget(d)
    \/ \E d \in Docs : Call(d)
    \/ \E d \in Docs : InjectStep(d)

Spec == Init /\ [][Next]_vars

\* The threads of the run: the coordinator and one worker per document task.
Coordinator ==
    \/ Start \/ SetupCheck \/ SetupIndex \/ SetupInstall \/ SetupLoad
    \/ SetupWarmup \/ Prepare \/ Open \/ CopyNonHtml \/ Submit
    \/ (\E d \in Docs : Collect(d)) \/ Shutdown \/ Abort \/ Final

Worker(d) == Begin(d) \/ Loop(d) \/ Budget(d) \/ Call(d) \/ InjectStep(d)

\* The coordinator takes a step when it can, and while some worker thread
\* can take a step one of them does: the operating system schedules the
\* threads and every backend call returns.
FairSpec ==
    /\ Spec
    /\ WF_vars(Coordinator)
    /\ WF_vars(\E d \in Docs : Worker(d))

\* The pipeline is started again, by a new BackendTranslator, on the archive
\* the finished run has produced.
Rerun ==
    /\ pc = "done"
    /\ run < MaxRuns
    /\ run' = run + 1
    /\ zin' = [n \in DOMAIN zin |-> zout.members[n][Len(zout.members[n])]]
    /\ stop_requested' = FALSE
    /\ total_translated_count' = 0
    /\ argos_model' = FALSE
    /\ lifecycle' = << >>
    /\ pc' = "start"
    /\ nsub' = 0
    /\ task' = [d \in Docs |-> IdleTask]
    /\ yielded' = {}
    /\ completed' = 0
    /\ zout' = NoArchive
    /\ temp_epub' = FALSE
    /\ damage' = "none"
    /\ sink' = NoMessages
    /\ UNCHANGED <<settings, file_exists, app, httpVars>>

NextRerun == Next \/ Rerun

----------------------------------------------------------------------------
(* gui_app.py: the window that started the run *)

\* "Done!" in msg or "Error" in msg or "Stopped" in msg, for the message
\* texts of the backend and the file names of the model
ContainsKeyword(m) ==
    \/ m.text = "Done! Saved"
    \/ m.text \in ErrorMsgs \/ m.fname \in ErrorNames
    \/ m.text = "Stopped by user."

\* App.check_queue, one message taken from the queue: a message with a
\* keyword re-enables the Run button and returns without scheduling the
\* next poll
CheckQueue ==
    /\ app.attached /\ app.polling
    /\ sink.queue # << >>
    /\ sink' = [sink EXCEPT !.queue = Tail(@)]
    /\ app' = IF ContainsKeyword(Head(sink.queue))
              THEN [app EXCEPT !.btn_run = "normal", !.polling = FALSE]
              ELSE app
    /\ UNCHANGED <<settings, file_exists, zin, run, damage, modelVars, pc,
                   nsub, yielded, completed, zout, temp_epub, task,
                   stop_requested, total_translated_count, httpVars>>

\* a run of a cloud backend on the book with the chapter on errors
ErrSettings ==
    {c \in KeyedSettings :
        /\ c.source = "deepl" /\ ~c.test_mode
        /\ c.start_index = 0 /\ c.ext = ".epub"}

GuiInputs == Inputs \cup (ErrSettings \X {ArchiveE})

InitGui == InitRun(GuiInputs, AppRunning) /\ ServerStart

NextGui == Next \/ CheckQueue

\* A run started with the Run button of the window.
SpecGui == InitGui /\ [][NextGui]_vars

----------------------------------------------------------------------------
(* app.py: the server process *)

\* the server imports no pipeline: a BackendTranslator that is never run
InitHttp ==
    /\ InitRun(PoolSettings \X {ArchiveC}, NoApp)
    /\ ~file_exists
    /\ damage = "none"
    /\ ServerStart

NextHttp ==
    \/ \E t \in Threads : Receive(t)
    \/ \E t \in Threads : CacheGet(t)
    \/ \E t \in Threads : LoadCheck(t)
    \/ \E t \in Threads : LoadFind(t)
    \/ \E t \in Threads : LoadWarm(t)
    \/ \E t \in Threads : LoadStore(t)
    \/ \E t \in Threads : Translate(t)

SpecHttp == InitHttp /\ [][NextHttp]_vars

SpecRerun == Init /\ [][NextRerun]_vars

----------------------------------------------------------------------------
(* Properties *)

\* names of the members written to the output archive
OutputNames == {n \in Names : zout.members[n] # << >>}

RECURSIVE SumInjected(_)
SumInjected(ds) ==
    IF ds = {} THEN 0
    ELSE LET d == CHOOSE x \in ds : TRUE
         IN task[d].ninj + SumInjected(ds \ {d})

\* units that have received an injected translation in this run
TotalInjected == SumInjected(Docs)

\* the run has opened both archives and has not yet chosen its last message
ArchivePhase == pc \in {"copy", "submit", "collect", "shutdown", "final"}

\* C1: a run that ends in Done or Stopped has written exactly the member
\* names of the input archive to the output archive.
C1_OutputNamesEqualInput ==
    pc \in {"done", "stopped"} => OutputNames = DOMAIN zin

\* C2: in test mode the number of units that received an injected
\* translation never exceeds the limit, whatever the interleaving of workers.
C2_InjectedWithinLimit ==
    settings.test_mode => TotalInjected <= settings.test_limit

\* C3: in a stopped run every document task that translated at least one
\* unit has its bytes in the output archive.
C3_TranslatedResultsWritten ==
    pc = "stopped" =>
        \A d \in Docs : task[d].ninj > 0 => zout.members[d] = <<task[d].result>>

\* C4: a document whose ordinal position is below the start index gets no
\* translate call and is written with its input bytes.
C4_BelowStartIndexCopied ==
    \A d \in FileDocs :
        Position(d) - 1 < settings.start_index =>
            /\ task[d].ncalls = 0
            /\ \A k \in 1..Len(zout.members[d]) : zout.members[d][k] = zin[d]

\* C5: in a run on the archive an earlier run produced, no element that
\* carries an injected translation of that earlier run is translated again.
C5_RerunSelectsNoTranslatedElement ==
    \A d \in Docs :
        task[d].pc = "inject" => zin[d].els[task[d].i].added = << >>

\* C6: a finished document task that injected nothing returns the original
\* bytes, nothing else is ever written for that member, and in a Done run
\* exactly those bytes are written for it.
C6_UnmodifiedBytesKept ==
    \A d \in Docs :
        task[d].st = "done" /\ task[d].ninj = 0 =>
            /\ task[d].result = zin[d]
            /\ \A k \in 1..Len(zout.members[d]) : zout.members[d][k] = zin[d]
            /\ pc = "done" => zout.members[d] = <<zin[d]>>

\* a parsed document whose every call failed is written unchanged in a Done run
C6_Witness ==
    /\ pc = "done"
    /\ \E d \in Docs :
         /\ task[d].ncalls > 0 /\ task[d].ninj = 0
         /\ zout.members[d] = <<zin[d]>>

\* C7: once the stop flag is set in a run that is processing an archive
\* every member of which can be read,
\* the run reaches Stopped with every task finished and the output closed.
C7_StopLeadsToStopped ==
    (stop_requested /\ ArchivePhase /\ damage = "none")
        ~> (/\ pc = "stopped"
            /\ \A d \in FileDocs : task[d].st = "done"
            /\ zout.state = "closed")

\* the flag is set while a task is in the middle of a document
C7_Witness ==
    /\ stop_requested /\ pc = "collect"
    /\ \E d \in Docs : task[d].pc = "inject"
    /\ \E d \in Docs : task[d].st = "queued"

LifecycleInstalled == <<"check_installed", "load", "warmup">>

LifecycleMissing ==
    <<"check_missing", "update_index", "install", "load", "warmup">>

IsPrefix(p, q) == Len(p) <= Len(q) /\ SubSeq(q, 1, Len(p)) = p

\* C8: the local model's lifecycle calls are made in the order check, (index
\* refresh and install when the pair is missing), load, warmup; no unit is
\* translated before the warmup, and other backends make no lifecycle call.
C8_LifecycleBeforeTranslate ==
    /\ \/ IsPrefix(lifecycle, LifecycleInstalled)
       \/ IsPrefix(lifecycle, LifecycleMissing)
    /\ settings.source # "local" => lifecycle = << >>
    /\ settings.source = "local" /\ (\E d \in Docs : task[d].ncalls > 0) =>
           /\ lifecycle \in {LifecycleInstalled, LifecycleMissing}
           /\ argos_model

\* a unit is translated by the local model after an install
C8_Witness ==
    /\ settings.source = "local"
    /\ lifecycle = LifecycleMissing
    /\ \E d \in Docs : task[d].pc = "inject" /\ task[d].log = <<TrA>>

\* C9: a google_free translate call makes at most 3 attempts, every attempt
\* before the last one failed, a successful last attempt gives the returned
\* text, and 3 failures give an error text instead of an exception.
C9_GoogleFreeRetries ==
    \A d \in Docs :
        settings.source = "google_free" /\ task[d].pc = "inject" =>
            LET log == task[d].log
                n == Len(log)
            IN /\ n \in 1..3
               /\ \A k \in 1..(n - 1) : log[k] = Raise
               /\ log[n] # Raise => task[d].trans = log[n]
               /\ log[n] = Raise =>
                      n = 3 /\ StartsWith(task[d].trans, ErrorPrefix)

\* two failures, then the third attempt's text
C9_Witness ==
    /\ settings.source = "google_free"
    /\ \E d \in Docs :
         /\ task[d].pc = "inject"
         /\ task[d].log = <<Raise, Raise, TrA>>
         /\ task[d].trans = TrA

\* C10: a unit whose backend call failed leaves its element as it was and
\* the task moves on to the next element; a run whose archive can be read
\* never ends in Error because of it, and when the stop flag is not set it ends in Done with
\* every member written once.
C10_UnitFailureAbsorbed ==
    /\ [][\A d \in Docs :
            task[d].pc = "inject" /\ Raised(task[d].log)
              /\ task'[d] # task[d] =>
                /\ task'[d].els = task[d].els
                /\ task'[d].modified = task[d].modified
                /\ task'[d].i = task[d].i + 1
                /\ task'[d].st = "running" /\ task'[d].pc = "loop"
                /\ pc' = pc]_vars
    /\ []((\E d \in Docs : task[d].nfail > 0) /\ damage = "none" =>
            /\ pc # "error"
            /\ Ended /\ ~stop_requested =>
                 /\ pc = "done"
                 /\ \A n \in DOMAIN zin : Len(zout.members[n]) = 1)

\* a Done run in which a call failed before a later unit was translated
C10_Witness ==
    /\ pc = "done" /\ ~stop_requested
    /\ \E d \in Docs : task[d].nfail > 0
    /\ \E d \in Docs : task[d].ninj > 0
    /\ \A n \in DOMAIN zin : Len(zout.members[n]) = 1

MissingCredential ==
    \/ settings.source = "deepl" /\ settings.deepl_key = ""
    \/ settings.source = "gemini" /\ settings.gemini_key = ""

\* C11: when the input file is missing or the key of the selected backend
\* is missing, no archive is opened, no translate call is made, and the run
\* ends in Error.
C11_ConfigurationErrorFatal ==
    ~file_exists \/ MissingCredential =>
        /\ zout = NoArchive
        /\ \A d \in Docs : task[d].ncalls = 0
        /\ Ended => pc = "error"

\* C12: a run that has ended in Error has left the output path as it was
\* before the run.
C12_FatalLeavesOutputUntouched ==
    pc = "error" => zout = NoArchive

\* C13: a run delivers no terminal message before it ends and exactly one
\* when it ends, that message is the last one and is the Done, Stopped or
\* Error message of the way the run ended; Done is delivered only with the
\* stop flag not set and every content document written once.
C13_OneTerminalMessage ==
    /\ ~Ended => sink.nterm = 0
    /\ Ended => sink.nterm = 1 /\ MsgKind(sink.last) = pc
    /\ MsgKind(sink.last) = "done" =>
           /\ ~stop_requested
           /\ \A d \in FileDocs : Len(zout.members[d]) = 1

\* C14: a task that starts with the stop flag set finishes in that step
\* with its input bytes as result and no translate call made, and a task
\* makes at most one translate call with the flag set.
C14_StopBoundsFurtherCalls ==
    /\ [][\A d \in Docs :
            stop_requested /\ task[d].st = "queued" /\ task'[d] # task[d] =>
                /\ task'[d].st = "done"
                /\ task'[d].result = task[d].raw
                /\ task'[d].ncalls = 0]_vars
    /\ [](\A d \in Docs : task[d].late <= 1)

\* one task made a call with the flag set, another started after the flag
\* was set and returned a document with translatable elements as it was
C14_Witness ==
    /\ stop_requested
    /\ \E d \in Docs : task[d].late = 1 /\ task[d].st = "done"
    /\ \E d \in Docs :
         /\ ~IsTocNav(d) /\ Parse(task[d].raw) # << >>
         /\ task[d].st = "done" /\ task[d].els = << >>
         /\ task[d].result = task[d].raw /\ task[d].ncalls = 0

C16_OneTaskPerDocument ==
    /\ \A d \in Docs :
         /\ task[d].subs <= 1
         /\ Len(zout.members[d]) <= 1
         /\ d \notin FileDocs => task[d].subs = 0
         /\ task[d].st # "none" =>
              /\ task[d].raw = zin[d]
              /\ task[d].els # << >> =>
                   /\ Len(task[d].els) = Len(Parse(zin[d]))
                   /\ \A k \in 1..Len(task[d].els) :
                        task[d].els[k].text = Parse(zin[d])[k].text
         /\ zout.members[d] # << >> => zout.members[d][1] = task[d].result
    /\ pc \in {"collect", "shutdown", "final", "done", "stopped"} =>
           \A d \in FileDocs : task[d].subs = 1

\* a finished run of three tasks, one of which changed its document
C16_Witness ==
    /\ pc = "done"
    /\ Cardinality(FileDocs) = 3
    /\ \A d \in FileDocs : task[d].subs = 1 /\ Len(zout.members[d]) = 1
    /\ \E d \in FileDocs : task[d].modified

HasNested(els, k) == \E c \in 1..Len(els) : els[c].parent = k

\* C17: no translation is injected into an allow-listed element that
\* contains another allow-listed element.
C17_ContainerNotTranslated ==
    \A d \in Docs :
        \A k \in 1..Len(task[d].els) :
            HasNested(task[d].els, k) => task[d].els[k].added = << >>

\* C18: every step in which a task makes a translate call passes the
\* trimmed text of the current element, and that text is longer than 2 and
\* holds a letter.
C18_CallTextQualifies ==
    [][\A d \in Docs :
         task'[d].ncalls > task[d].ncalls =>
             LET a == task'[d].arg
             IN /\ a = Strip(get_text(task[d].els, task[d].i))
                /\ Len(a) > 2
                /\ HasAlpha(a)]_vars

\* the numeric first element was passed over and the second is translated
C18_Witness ==
    \E d \in Docs :
        /\ task[d].pc = "inject" /\ task[d].i = 2 /\ task[d].ncalls = 1
        /\ task[d].els[1].text = NumText
        /\ task[d].arg = GoodText

\* C19: an element inside a hyperlink is never the element of a translate
\* call and never carries an injected translation, neither in a task's tree
\* nor in a document written to the output.
C19_LinkedElementUntouched ==
    \A d \in Docs :
        /\ task[d].pc = "inject" => ~task[d].els[task[d].i].link
        /\ \A k \in 1..Len(task[d].els) :
             task[d].els[k].link => task[d].els[k].added = << >>
        /\ \A w \in 1..Len(zout.members[d]) :
             \A k \in 1..Len(zout.members[d][w].els) :
                 zout.members[d][w].els[k].link =>
                     zout.members[d][w].els[k].added = << >>

\* a written document whose first element was translated and whose second,
\* inside a hyperlink and with the same text, was not
C19_Witness ==
    \E d \in Docs :
        /\ zout.members[d] # << >>
        /\ LET els == zout.members[d][1].els
           IN /\ Len(els) = 2
              /\ els[1].added # << >>
              /\ els[2].link /\ els[2].text = els[1].text
              /\ els[2].added = << >>

\* the documents whose result has been written to the output
Written == {d \in Docs : zout.members[d] # << >>}

\* the fraction p is less than the fraction q
Less(p, q) == p[1] * q[2] < q[1] * p[2]

\* C20: a progress message is sent in exactly the steps that write a
\* document result; the k-th one carries k/N*100, more than the one before
\* and at most 100, and 100 exactly when all N documents are written; a run
\* on an archive without content documents sends none and ends in Done
\* when it is not stopped.
C20_ProgressPercent ==
    /\ [][/\ sink'.nprog # sink.nprog <=> Written' # Written
          /\ sink'.nprog # sink.nprog =>
               /\ sink'.nprog = sink.nprog + 1
               /\ \E d \in FileDocs :
                    Written' = Written \cup {d} /\ task[d].st = "done"
               /\ sink'.prog[1] * total_files
                      = sink'.nprog * 100 * sink'.prog[2]
               /\ sink'.pct = sink'.prog
               /\ Less(sink.prog, sink'.prog)]_vars
    /\ [](/\ sink.nprog = Cardinality(Written)
          /\ sink.prog[1] <= 100 * sink.prog[2]
          /\ sink.prog[1] = 100 * sink.prog[2]
                 <=> total_files > 0 /\ Cardinality(Written) = total_files
          /\ total_files = 0 /\ zout.state = "closed" /\ Ended
                 /\ ~stop_requested /\ damage = "none" => pc = "done")

\* the third of three progress messages carried 100
C20_Witness ==
    /\ total_files = 3
    /\ sink.nprog = 3
    /\ sink.prog[1] = 100 * sink.prog[2]
    /\ Cardinality(Written) = 3

\* the last attempt of the backend call returned a text that is not empty
Succeeded(log) ==
    log # << >> /\ log[Len(log)] # Raise /\ Truthy(log[Len(log)])

\* C21: the step that follows a translate call appends a translation to
\* the element exactly when the backend answered that call with a text,
\* and the appended text is the backend's answer.
C21_InjectedIffBackendSucceeded ==
    [][\A d \in Docs :
         task[d].pc = "inject" /\ task'[d] # task[d] =>
             LET el == task[d].els[task[d].i]
                 after == task'[d].els[task[d].i]
             IN /\ after.added # el.added <=> Succeeded(task[d].log)
                /\ after.added # el.added =>
                     after.added =
                         Append(el.added, task[d].log[Len(task[d].log)])]_vars

\* the number of translation spans in a list of elements
RECURSIVE Spans(_)
Spans(els) ==
    IF els = << >> THEN 0 ELSE Len(Head(els).added) + Spans(Tail(els))

RECURSIVE SumSpans(_)
SumSpans(ds) ==
    IF ds = {} THEN 0
    ELSE LET d == CHOOSE x \in ds : TRUE
         IN Spans(task[d].els) + SumSpans(ds \ {d})

\* C22: in a test-mode run the counter equals the number of translations
\* all tasks together have injected so far, hence 0 before the first one;
\* without test mode it stays 0.
C22_CounterCountsInjections ==
    /\ settings.test_mode => total_translated_count = SumSpans(Docs)
    /\ ~settings.test_mode => total_translated_count = 0

\* two tasks have injected one translation each
C22_Witness ==
    /\ settings.test_mode
    /\ total_translated_count = 2
    /\ \E d, e \in Docs :
         d # e /\ Spans(task[d].els) = 1 /\ Spans(task[e].els) = 1

\* C23: in a run started from the window, the Run button is enabled or
\* the polling has stopped only when the backend run has ended and has
\* sent its terminal message.
C23_RunButtonWaitsForTerminal ==
    app.attached /\ (app.btn_run = "normal" \/ ~app.polling) =>
        Ended /\ sink.nterm >= 1

\* C24: every cached translation has been warmed up and belongs to its
\* pair; /translate calls translate only on a warmed-up translation; a
\* load that ends without a translation answers 404 or 500 and leaves the
\* cache as it was; /loadmodel answers 200 only with the pair cached.
C24_CacheHoldsWarmModels ==
    /\ [](\A p \in Pairs :
            LOADED_MODELS[p] # NoModel =>
                LOADED_MODELS[p] \in warmed /\ LOADED_MODELS[p][1] = p)
    /\ [](\A t \in Threads :
            /\ req[t].pc = "t_call" =>
                 req[t].translation \in warmed
                     /\ req[t].translation[1] = req[t].pair
            /\ req[t].pc = "done" /\ req[t].kind = "loadmodel"
                 /\ req[t].status = 200 => LOADED_MODELS[req[t].pair] # NoModel)
    /\ [][\A t \in Threads :
            req[t].pc \in {"l_find", "l_warm"} /\ req'[t].pc = "done" =>
                /\ req'[t].status \in {404, 500}
                /\ LOADED_MODELS' = LOADED_MODELS]_vars

\* one request translates with the cached model while another one, for a
\* pair that is not installed, has been answered 404
C24_Witness ==
    /\ LOADED_MODELS["en_tr"] \in warmed
    /\ \E t \in Threads :
         /\ req[t].pc = "t_call" /\ req[t].served = 2
         /\ req[t].translation = LOADED_MODELS["en_tr"]
    /\ \E t \in Threads :
         /\ req[t].pc = "done" /\ req[t].pair = "en_xx" /\ req[t].status = 404
    /\ LOADED_MODELS["en_xx"] = NoModel

\* C25: for each language pair at most one translation object is ever
\* warmed up in the process.
C25_PairLoadedOnce ==
    \A p \in Pairs : Cardinality({m \in warmed : m[1] = p}) <= 1

====
